---- MODULE Spec2Model ----
(***************************************************************************)
(* Environmental monitor firmware (Raspberry Pi Pico W): the cooperative   *)
(* multi-rate main loop of src/app/main.c, the AHT10 and BH1750 decoders   *)
(* of src/hal, and the alert evaluation check_critical_values().           *)
(*                                                                         *)
(* Time is the monotonic clock in milliseconds.  A C float is held as an   *)
(* integer number of 2^-20 units (FloatOne units per 1.0); every float the *)
(* model handles (magnitude in 8 .. 2047, or a multiple of 2^-17 below 8)  *)
(* is exact on that grid, and RoundF32 rounds to the 24-bit significand.   *)
(***************************************************************************)
EXTENDS Integers, Sequences, FiniteSets, TLC

\* ------------------------------------------------------------------ floats
\* 1.0 in the fixed-point representation of a C float (2^20).
FloatOne == 1048576

RECURSIVE Pow2(_)
Pow2(n) == IF n = 0 THEN 1 ELSE 2 * Pow2(n - 1)

\* Number of binary digits of m >= 0.
RECURSIVE BitLen(_)
BitLen(m) == IF m = 0 THEN 0 ELSE 1 + BitLen(m \div 2)

Abs(v) == IF v < 0 THEN -v ELSE v

\* Round-to-nearest-even of q + (a fraction in [0,1)) to a 24-bit significand.
\* frac is 0 (no fraction), 1 (below one half), 2 (exactly one half),
\* 3 (above one half) of the last unit of q.
RoundSig(q, frac) ==
    LET L == BitLen(q)
    IN  IF L <= 24
        THEN IF frac = 3 \/ (frac = 2 /\ q % 2 = 1) THEN q + 1 ELSE q
        ELSE LET s    == Pow2(L - 24)
                 hi   == q \div s
                 lo   == q % s
                 half == s \div 2
                 up   == \/ lo > half
                         \/ lo = half /\ frac > 0
                         \/ lo = half /\ frac = 0 /\ hi % 2 = 1
             IN  (IF up THEN hi + 1 ELSE hi) * s

\* Conversion of an exact value on the 2^-20 grid to float.
RoundF32(v) == IF v < 0 THEN -RoundSig(-v, 0) ELSE RoundSig(v, 0)

\* ------------------------------------------------------------ AHT10 decoder
AHT_FRAME_LEN == 6
AHT_MEASURE_MS == 80

\* (data[0] & 0x80) != 0
AhtBusy(data) == (data[1] \div 128) % 2 = 1

\* ((uint32_t)data[1] << 12) | ((uint32_t)data[2] << 4) | (data[3] >> 4)
RawHumidity(data) == data[2] * 4096 + data[3] * 16 + (data[4] \div 16)

\* Mutant: the mask is 0x1F, so a bit of the humidity nibble of byte 3
\* enters the temperature.
RawTempWideMask(data) == (data[4] % 32) * 65536 + data[5] * 256 + data[6]

\* (((uint32_t)data[3] & 0x0F) << 16) | ((uint32_t)data[4] << 8) | data[5]
RawTemp(data) == (data[4] % 16) * 65536 + data[5] * 256 + data[6]

\* *humidity = ((float)raw_humidity / 1048576.0) * 100.0
HumidityOf(raw) == RoundF32(raw * 100)

\* Mutant: the offset of 50 degrees is left out.
TempOfNoOffset(raw) == RoundF32(raw * 200)

\* *temp = ((float)raw_temp / 1048576.0) * 200.0 - 50.0
TempOf(raw) == RoundF32(raw * 200 - 50 * FloatOne)

\* Mutant: a failed read stores 0 in both outputs.
Aht10ReadZeroingOnFailure(xfer, temp, humidity) ==
    IF xfer.n # AHT_FRAME_LEN \/ AhtBusy(xfer.data)
    THEN [ok |-> FALSE, temp |-> 0, humidity |-> 0]
    ELSE [ok |-> TRUE,
          temp |-> TempOf(RawTemp(xfer.data)),
          humidity |-> HumidityOf(RawHumidity(xfer.data))]

\* Mutant: the busy bit of the status byte is not looked at.
Aht10ReadIgnoringBusy(xfer, temp, humidity) ==
    IF xfer.n # AHT_FRAME_LEN
    THEN [ok |-> FALSE, temp |-> temp, humidity |-> humidity]
    ELSE [ok |-> TRUE,
          temp |-> TempOf(RawTemp(xfer.data)),
          humidity |-> HumidityOf(RawHumidity(xfer.data))]

\* aht10_read_data: xfer = [w |-> what the trigger write returned, n |-> what
\* the read returned, data |-> the 6-byte buffer].
\* The result of the trigger write is not looked at.  On failure the two
\* output floats keep their previous values.
Aht10ReadData(xfer, temp, humidity) ==
    IF xfer.n # AHT_FRAME_LEN
    THEN [ok |-> FALSE, temp |-> temp, humidity |-> humidity]
    ELSE IF AhtBusy(xfer.data)
    THEN [ok |-> FALSE, temp |-> temp, humidity |-> humidity]
    ELSE [ok |-> TRUE,
          temp |-> TempOf(RawTemp(xfer.data)),
          humidity |-> HumidityOf(RawHumidity(xfer.data))]

\* ----------------------------------------------------------- BH1750 decoder
BH_FRAME_LEN == 2

\* The float 1.2f is LuxDivisor / 2^22.
LuxDivisor == 5033165
LuxDivisorShift == 22

\* Binary long division: n more quotient bits of rem / LuxDivisor.
RECURSIVE LongDiv(_, _, _)
LongDiv(rem, quo, n) ==
    IF n = 0 THEN [quo |-> quo, rem |-> rem]
    ELSE LongDiv((2 * rem) % LuxDivisor, 2 * quo + ((2 * rem) \div LuxDivisor), n - 1)

\* uint16_t raw = (data[0] << 8) | data[1]
RawLux(data) == (data[1] * 256 + data[2]) % 65536

\* Mutant: the division is by the real number 1.2, rounded once to float.
LuxOfExactDivisor(raw) ==
    RoundSig(raw * 873813 + raw \div 3,
             IF raw % 3 = 0 THEN 0 ELSE IF raw % 3 = 1 THEN 1 ELSE 3)

\* *lux = raw / 1.2f  (float division, correctly rounded)
LuxOf(raw) ==
    LET d    == LongDiv(raw, 0, 20 + LuxDivisorShift)
        frac == IF d.rem = 0 THEN 0
                ELSE IF 2 * d.rem < LuxDivisor THEN 1
                ELSE IF 2 * d.rem = LuxDivisor THEN 2 ELSE 3
    IN  RoundSig(d.quo, frac)

\* Mutant: a short read stores 0 and reports success.
Bh1750ReadLuxDefaultValid(xfer) ==
    IF xfer.n # BH_FRAME_LEN
    THEN [ok |-> TRUE, lux |-> 0]
    ELSE [ok |-> TRUE, lux |-> LuxOf(RawLux(xfer.data))]

\* bh1750_read_lux: a short read stores 0 and reports failure.
Bh1750ReadLux(xfer) ==
    IF xfer.n # BH_FRAME_LEN
    THEN [ok |-> FALSE, lux |-> 0]
    ELSE [ok |-> TRUE, lux |-> LuxOf(RawLux(xfer.data))]

\* ---------------------------------------------------------------- the state
VARIABLES
    now,                \* get_absolute_time(), in ms since power-on
    t0,                 \* the time at which main() armed the five timers
    pc,                 \* position of main() in the body of while (true)
    iter_start,         \* the clock when the current iteration's due checks began
    timer,              \* sensor_timer, display_timer, wifi_timer, mqtt_timer, mqtt_alert_timer
    runs,               \* how many times each task's action has been executed
    last,               \* the latest firing: task, the due time it served, the clock then
    app_state,          \* static AppState app_state
    btn,                \* last_state of btn_a, btn_b, btn_c
    reconnects,         \* how many times button C has started wifi_connect()
    conct_status_mqtt,  \* bool conct_status_mqtt (mqtt_server.c)
    alerts_before,      \* app_state.alerts on entry to the latest check_critical_values()
    i2c,                \* the bus answers of the latest read_sensors(); the validity flags on its entry
    disp,               \* what the display shows (display.c)
    published,          \* the messages the latest step handed to mqtt_comm_publish()
    sent,               \* how many messages each topic has been handed so far
    report,             \* the JSON the latest step wrote in send_data_to_phone()
    checked,            \* what wifi_check() and mqtt_check() answered the latest step
    led,                \* the levels the latest check_critical_values() put on the LED pin
    broker              \* the MQTT session of the client made by the latest mqtt_setup()

vars == <<now, t0, pc, iter_start, timer, runs, last, app_state, btn, reconnects,
          conct_status_mqtt, alerts_before, i2c, disp, published, sent, report,
          checked, led, broker>>

Tasks == {"sensor", "display", "wifi", "mqtt", "alert"}

SENSOR_PERIOD_MS == 2000
DISPLAY_PERIOD_MS == 200
WIFI_PERIOD_MS == 5000
MQTT_PUBLISH_INTERVAL_MS == 10000
MQTT_ALERT_INTERVAL_MS == 30000

Period(t) ==
    CASE t = "sensor"  -> SENSOR_PERIOD_MS
      [] t = "display" -> DISPLAY_PERIOD_MS
      [] t = "wifi"    -> WIFI_PERIOD_MS
      [] t = "mqtt"    -> MQTT_PUBLISH_INTERVAL_MS
      [] t = "alert"   -> MQTT_ALERT_INTERVAL_MS

MENU_MEASUREMENTS == 0
MENU_WIFI == 1
MENU_ALERTS == 2
MENU_MQTT == 3
MENU_COUNT == 4

BOOT_DELAY_MS == 3000
WIFI_TIMEOUT_MS == 30000

\* Mutant: the timers are armed already expired.
MakeTimeoutExpired(ms) == now

\* make_timeout_time_ms(ms)
MakeTimeoutTimeMs(ms) == now + ms

\* Mutant: the timer is re-armed from the clock after the action.
DelayedFromNow(t, ms) == now' + ms

\* Mutant: a timer that has fallen behind skips the due times it missed.
DelayedSkipping(t, ms) == IF t + ms <= now' THEN t + ms + ms ELSE t + ms

\* delayed_by_ms(t, ms)
DelayedByMs(t, ms) == t + ms

\* Mutant: the arguments of the time difference swapped.
DueReversed(t) == now - timer[t] <= 0

\* Mutant: the due checks made against one clock reading per iteration.
DueAtIterStart(t) == timer[t] - iter_start <= 0

\* Mutant: a consumer task is passed over, timer and all, while the
\* temperature/humidity reading is invalid.
DueOnlyIfValid(t) == timer[t] - now <= 0 /\ (t = "sensor" \/ app_state.sensors.aht_ok)

\* absolute_time_diff_us(get_absolute_time(), timer) <= 0
Due(t) == timer[t] - now <= 0

\* ------------------------------------------------------------ alert engine
TEMP_MIN == 15 * FloatOne
TEMP_MAX == 35 * FloatOne
HUMIDITY_MAX == 80 * FloatOne
LUX_MIN == 50 * FloatOne
LED_PULSE_MS == 100

\* Mutant: the light alert left out of the consolidated flag.
CheckCriticalNoLuxInAny(s) ==
    LET tc == s.aht_ok /\ (s.temperature < TEMP_MIN \/ s.temperature > TEMP_MAX)
        hc == s.aht_ok /\ s.humidity > HUMIDITY_MAX
        lc == s.lux_ok /\ s.lux < LUX_MIN
    IN  [temp_critical |-> tc, humidity_critical |-> hc, lux_critical |-> lc,
         any_critical |-> (tc \/ hc)]

\* Mutant: the thresholds applied without looking at the validity flags.
CheckCriticalIgnoringValidity(s) ==
    LET tc == s.temperature < TEMP_MIN \/ s.temperature > TEMP_MAX
        hc == s.humidity > HUMIDITY_MAX
        lc == s.lux < LUX_MIN
    IN  [temp_critical |-> tc, humidity_critical |-> hc, lux_critical |-> lc,
         any_critical |-> (tc \/ hc \/ lc)]

\* Mutant: the temperature limits themselves counted as out of range.
CheckCriticalTempInclusive(s) ==
    LET tc == s.aht_ok /\ (s.temperature <= TEMP_MIN \/ s.temperature >= TEMP_MAX)
        hc == s.aht_ok /\ s.humidity > HUMIDITY_MAX
        lc == s.lux_ok /\ s.lux < LUX_MIN
    IN  [temp_critical |-> tc, humidity_critical |-> hc, lux_critical |-> lc,
         any_critical |-> (tc \/ hc \/ lc)]

\* Mutant: the humidity limit itself counted as too humid.
CheckCriticalHumidityInclusive(s) ==
    LET tc == s.aht_ok /\ (s.temperature < TEMP_MIN \/ s.temperature > TEMP_MAX)
        hc == s.aht_ok /\ s.humidity >= HUMIDITY_MAX
        lc == s.lux_ok /\ s.lux < LUX_MIN
    IN  [temp_critical |-> tc, humidity_critical |-> hc, lux_critical |-> lc,
         any_critical |-> (tc \/ hc \/ lc)]

\* Mutant: the illuminance limit itself counted as too dark.
CheckCriticalLuxInclusive(s) ==
    LET tc == s.aht_ok /\ (s.temperature < TEMP_MIN \/ s.temperature > TEMP_MAX)
        hc == s.aht_ok /\ s.humidity > HUMIDITY_MAX
        lc == s.lux_ok /\ s.lux <= LUX_MIN
    IN  [temp_critical |-> tc, humidity_critical |-> hc, lux_critical |-> lc,
         any_critical |-> (tc \/ hc \/ lc)]

\* Mutant: the flags are not reset, a raised alert stays until reboot.
CheckCriticalMerging(s) ==
    LET tc == s.aht_ok /\ (s.temperature < TEMP_MIN \/ s.temperature > TEMP_MAX)
        hc == s.aht_ok /\ s.humidity > HUMIDITY_MAX
        lc == s.lux_ok /\ s.lux < LUX_MIN
        t == app_state.alerts.temp_critical \/ tc
        h == app_state.alerts.humidity_critical \/ hc
        l == app_state.alerts.lux_critical \/ lc
    IN  [temp_critical |-> t, humidity_critical |-> h, lux_critical |-> l,
         any_critical |-> (t \/ h \/ l)]

\* Mutant: with no valid reading the evaluation is skipped and the flags stay.
CheckCriticalSkippedWhenInvalid(s) ==
    IF ~s.aht_ok /\ ~s.lux_ok
    THEN app_state.alerts
    ELSE LET tc == s.aht_ok /\ (s.temperature < TEMP_MIN \/ s.temperature > TEMP_MAX)
             hc == s.aht_ok /\ s.humidity > HUMIDITY_MAX
             lc == s.lux_ok /\ s.lux < LUX_MIN
         IN  [temp_critical |-> tc, humidity_critical |-> hc, lux_critical |-> lc,
              any_critical |-> (tc \/ hc \/ lc)]

\* check_critical_values: the AlertStatus computed from a SensorData.
CheckCriticalValues(s) ==
    LET tc == s.aht_ok /\ (s.temperature < TEMP_MIN \/ s.temperature > TEMP_MAX)
        hc == s.aht_ok /\ s.humidity > HUMIDITY_MAX
        lc == s.lux_ok /\ s.lux < LUX_MIN
    IN  [temp_critical |-> tc, humidity_critical |-> hc, lux_critical |-> lc,
         any_critical |-> (tc \/ hc \/ lc)]

\* Mutant: the LED is switched on and left on.
LedWritesLeftOn(al) == IF al.any_critical THEN <<TRUE>> ELSE << >>

\* cyw43_arch_gpio_put(CYW43_WL_GPIO_LED_PIN, ...) in check_critical_values:
\* on, then off after sleep_ms(100), when an alert is raised.
LedWrites(al) == IF al.any_critical THEN <<TRUE, FALSE>> ELSE << >>

\* ------------------------------------------------------------ the consumers
\* A float operand of a consumer: a value in 2^-20 units, or NAN.
NAN == [nan |-> TRUE, v |-> 0]
Float(v) == [nan |-> FALSE, v |-> v]

RECURSIVE Pow10(_)
Pow10(n) == IF n = 0 THEN 1 ELSE 10 * Pow10(n - 1)

\* printf("%.<dp>f", x): "nan" for NAN, else the decimal with dp places
\* nearest to the exact value, ties to even; digits counts units of 10^-dp.
Printf(x, dp) ==
    IF x.nan
    THEN [text |-> "nan"]
    ELSE LET a == Abs(x.v)
             whole == a \div FloatOne
             sc == (a % FloatOne) * Pow10(dp)
             d == whole * Pow10(dp) + (sc \div FloatOne)
             r == sc % FloatOne
             up == 2 * r > FloatOne \/ (2 * r = FloatOne /\ d % 2 = 1)
         IN  [text |-> "number", neg |-> x.v < 0, dp |-> dp,
              digits |-> IF up THEN d + 1 ELSE d]

\* The text shown for a quantity whose sensor is reported failed.
Falha == [text |-> "Falha"]

\* pres / 100.0f
FloatDiv100(x) ==
    IF x.nan
    THEN NAN
    ELSE LET a == Abs(x.v)
             r == a % 100
             frac == IF r = 0 THEN 0 ELSE IF 2 * r < 100 THEN 1
                     ELSE IF 2 * r = 100 THEN 2 ELSE 3
             q == RoundSig(a \div 100, frac)
         IN  Float(IF x.v < 0 THEN -q ELSE q)

\* wifi_check(): the link status the radio reports, joining counted as up.
LinkStatuses == {"CYW43_LINK_DOWN", "CYW43_LINK_JOIN", "CYW43_LINK_UP"}
WifiCheck(status) == status = "CYW43_LINK_JOIN" \/ status = "CYW43_LINK_UP"

\* mqtt_check()
MqttCheck == conct_status_mqtt

\* Mutant: the broker session status is not looked at.
MqttGetAndPublishIgnoringBroker(wifi_connected, mqtt_connected, aht_ok, bmp_ok, lux_ok, aht_temp, bmp_temp, humidity, pressure, lux_val) ==
    LET temp == IF aht_ok THEN Float(aht_temp)
                ELSE IF bmp_ok THEN Float(bmp_temp) ELSE NAN
        hum  == IF aht_ok THEN Float(humidity) ELSE NAN
        pres == IF bmp_ok THEN Float(pressure) ELSE NAN
        lux  == IF lux_ok THEN Float(lux_val) ELSE NAN
        json_payload ==
            [temperatura |-> Printf(temp, 2), umidade |-> Printf(hum, 2),
             pressao |-> Printf(FloatDiv100(pres), 2), luminosidade |-> Printf(lux, 1)]
    IN  IF wifi_connected
        THEN << [topic |-> "pico_w/sensors/data", payload |-> json_payload] >>
        ELSE << >>

\* Mutant: the numbers are sent as they are stored, valid or not.
MqttGetAndPublishStoredValues(wifi_connected, mqtt_connected, aht_ok, bmp_ok, lux_ok, aht_temp, bmp_temp, humidity, pressure, lux_val) ==
    LET json_payload ==
            [temperatura |-> Printf(Float(aht_temp), 2),
             umidade |-> Printf(Float(humidity), 2),
             pressao |-> Printf(FloatDiv100(Float(pressure)), 2),
             luminosidade |-> Printf(Float(lux_val), 1)]
    IN  IF wifi_connected /\ mqtt_connected
        THEN << [topic |-> "pico_w/sensors/data", payload |-> json_payload] >>
        ELSE << >>

\* mqtt_get_and_publish(): the messages handed to mqtt_comm_publish().
MqttGetAndPublish(wifi_connected, mqtt_connected, aht_ok, bmp_ok, lux_ok, aht_temp, bmp_temp, humidity, pressure, lux_val) ==
    LET temp == IF aht_ok THEN Float(aht_temp)
                ELSE IF bmp_ok THEN Float(bmp_temp) ELSE NAN
        hum  == IF aht_ok THEN Float(humidity) ELSE NAN
        pres == IF bmp_ok THEN Float(pressure) ELSE NAN
        lux  == IF lux_ok THEN Float(lux_val) ELSE NAN
        json_payload ==
            [temperatura |-> Printf(temp, 2), umidade |-> Printf(hum, 2),
             pressao |-> Printf(FloatDiv100(pres), 2), luminosidade |-> Printf(lux, 1)]
    IN  IF wifi_connected /\ mqtt_connected
        THEN << [topic |-> "pico_w/sensors/data", payload |-> json_payload] >>
        ELSE << >>

\* mqtt_get_and_publish2()
MqttGetAndPublish2(wifi_connected, mqtt_connected, str) ==
    IF wifi_connected /\ mqtt_connected
    THEN << [topic |-> "pico_w/sensors/alerts", payload |-> str] >>
    ELSE << >>

\* Mutant: the payloads of the firings that were skipped are sent as well
\* once a publish goes through.
MqttPublishWithBacklog(st, link) ==
    IF ~st.wifi.connected
    THEN << >>
    ELSE LET m == MqttGetAndPublish(WifiCheck(link), MqttCheck, st.sensors.aht_ok, FALSE,
                                    st.sensors.lux_ok, st.sensors.temperature, 0,
                                    st.sensors.humidity, 0, st.sensors.lux)
         IN  IF m # << >> /\ sent.data < runs["mqtt"] THEN m \o m ELSE m

\* mqtt_publish_sensor_data_func(), link being what wifi_check() reads.
MqttPublishSensorDataFunc(st, link) ==
    IF ~st.wifi.connected
    THEN << >>
    ELSE MqttGetAndPublish(WifiCheck(link), MqttCheck, st.sensors.aht_ok, FALSE,
                           st.sensors.lux_ok, st.sensors.temperature, 0,
                           st.sensors.humidity, 0, st.sensors.lux)

\* The status queries mqtt_publish_sensor_data_func() makes: none when it
\* returns early.
SensorDataQueries(st, link) ==
    IF ~st.wifi.connected
    THEN << >>
    ELSE << [wifi_check |-> WifiCheck(link), mqtt_check |-> MqttCheck] >>

\* The status queries mqtt_publish_alerts_func() makes.
AlertsQueries(st, link) ==
    IF ~st.wifi.connected \/ ~st.alerts.any_critical
    THEN << >>
    ELSE << [wifi_check |-> WifiCheck(link), mqtt_check |-> MqttCheck] >>

\* Mutant: the alert message is sent whether or not an alert is raised.
MqttPublishAlertsAlways(st, link) ==
    IF ~st.wifi.connected
    THEN << >>
    ELSE MqttGetAndPublish2(WifiCheck(link), MqttCheck,
             [alerta |-> "critico",
              temperatura_critica |-> st.alerts.temp_critical,
              umidade_critica |-> st.alerts.humidity_critical,
              luz_critica |-> st.alerts.lux_critical])

\* mqtt_publish_alerts_func()
MqttPublishAlertsFunc(st, link) ==
    IF ~st.wifi.connected
    THEN << >>
    ELSE IF st.alerts.any_critical
         THEN MqttGetAndPublish2(WifiCheck(link), MqttCheck,
                  [alerta |-> "critico",
                   temperatura_critica |-> st.alerts.temp_critical,
                   umidade_critica |-> st.alerts.humidity_critical,
                   luz_critica |-> st.alerts.lux_critical])
         ELSE << >>

\* send_data_to_phone(): the JSON written to the console.
SendDataToPhone(st) ==
    IF ~st.wifi.connected
    THEN << >>
    ELSE << [temperatura |-> Printf(IF st.sensors.aht_ok
                                    THEN Float(st.sensors.temperature) ELSE NAN, 2),
             umidade |-> Printf(IF st.sensors.aht_ok
                                THEN Float(st.sensors.humidity) ELSE NAN, 2),
             luminosidade |-> Printf(IF st.sensors.lux_ok
                                     THEN Float(st.sensors.lux) ELSE NAN, 2),
             alertas |-> [temperatura |-> st.alerts.temp_critical,
                          umidade |-> st.alerts.humidity_critical,
                          luminosidade |-> st.alerts.lux_critical]] >>

\* display_update(): the four lines of the measurements screen.
DisplayUpdate(aht_temp, humidity, pressure, bmp_ok, lux, bh1750_ok) ==
    [screen |-> "measurements",
     line1 |-> Printf(aht_temp, 1),
     line2 |-> Printf(humidity, 0),
     line3 |-> IF bmp_ok THEN Printf(pressure, 0) ELSE Falha,
     line4 |-> IF bh1750_ok THEN Printf(lux, 0) ELSE Falha]

\* display_render_wifi_status()
DisplayRenderWifiStatus(text, status, is_alert) ==
    [screen |-> "status",
     line1 |-> text,
     line2 |-> IF is_alert
               THEN (IF status THEN "CRITICO" ELSE "OK")
               ELSE (IF status THEN "Conectado" ELSE "Desconectado")]

\* The display after display_init(), before the first update_display().
Blank == [screen |-> "blank"]

\* Mutant: the measurements screen is given the stored numbers, valid or not.
UpdateDisplayStoredValues(st) ==
    CASE st.current_menu = MENU_MEASUREMENTS ->
           DisplayUpdate(Float(st.sensors.temperature), Float(st.sensors.humidity),
                         Float(0), FALSE, Float(st.sensors.lux), TRUE)
      [] st.current_menu = MENU_WIFI ->
           DisplayRenderWifiStatus("WIFI_SSID", st.wifi.connected, FALSE)
      [] st.current_menu = MENU_ALERTS ->
           DisplayRenderWifiStatus("ALERTAS", st.alerts.any_critical, FALSE)
      [] st.current_menu = MENU_MQTT ->
           DisplayRenderWifiStatus("MQTT", MqttCheck, FALSE)
      [] OTHER -> disp

\* update_display(): the screen of the current menu.
UpdateDisplay(st) ==
    CASE st.current_menu = MENU_MEASUREMENTS ->
           DisplayUpdate(IF st.sensors.aht_ok THEN Float(st.sensors.temperature) ELSE NAN,
                         IF st.sensors.aht_ok THEN Float(st.sensors.humidity) ELSE NAN,
                         Float(0), FALSE,
                         IF st.sensors.lux_ok THEN Float(st.sensors.lux) ELSE NAN,
                         st.sensors.lux_ok)
      [] st.current_menu = MENU_WIFI ->
           DisplayRenderWifiStatus("WIFI_SSID", st.wifi.connected, FALSE)
      [] st.current_menu = MENU_ALERTS ->
           DisplayRenderWifiStatus("ALERTAS", st.alerts.any_critical, FALSE)
      [] st.current_menu = MENU_MQTT ->
           DisplayRenderWifiStatus("MQTT", MqttCheck, FALSE)
      [] OTHER -> disp

\* ---------------------------------------------------------- the environment
\* Raw bus frames the sensors answer with.
FrameNormal == <<28, 128, 0, 6, 0, 0>>            \* 50.0 %RH, 25.0 C
FrameHot    == <<28, 217, 153, 166, 225, 72>>     \* 85.0 %RH, 36.0 C
FrameCold   == <<28, 102, 102, 101, 49, 38>>      \* 40.0 %RH, 14.9 C
FrameDamp   == <<28, 204, 204, 214, 0, 0>>        \* 80.0 %RH (just above), 25.0 C
FrameBusy   == <<156, 217, 153, 166, 225, 72>>    \* busy bit set, payload of FrameHot

\* A transaction with the AHT10: w is what the write of the trigger command
\* returned, n what the read returned, data the buffer after the read.
AHT_TRIGGER_LEN == 3
PICO_ERROR_GENERIC == 0 - 1
AhtShort == [w |-> AHT_TRIGGER_LEN, n |-> 0, data |-> FrameHot]
AhtRead(f) == [w |-> AHT_TRIGGER_LEN, n |-> AHT_FRAME_LEN, data |-> f]
AhtTriggerFailed(f) == [w |-> PICO_ERROR_GENERIC, n |-> AHT_FRAME_LEN, data |-> f]

BhShort == [n |-> 1, data |-> <<0, 0>>]
BhRead(hi, lo) == [n |-> BH_FRAME_LEN, data |-> <<hi, lo>>]

\* Before the first read_sensors() nothing has been transferred.
NoTransfer ==
    [aht |-> [w |-> 0, n |-> 0, data |-> << >>], bh |-> [n |-> 0, data |-> << >>],
     was |-> [aht_ok |-> FALSE, lux_ok |-> FALSE]]

\* How long a cyw43_arch_wifi_connect_timeout_ms() that ends before its
\* timeout is taken to block.
ConnectQuick == 950

ConnectOutcomes ==
    { [ok |-> TRUE,  ms |-> ConnectQuick,    mqtt |-> TRUE],
      [ok |-> TRUE,  ms |-> ConnectQuick,    mqtt |-> FALSE],
      [ok |-> FALSE, ms |-> ConnectQuick,    mqtt |-> FALSE],
      [ok |-> FALSE, ms |-> WIFI_TIMEOUT_MS, mqtt |-> FALSE] }

\* How far past the arming of the timers the clock is followed: by the
\* scheduler specification, and by the application specification.
MaxTime == 30400
MaxTimeApp == 4400

\* How many reconnections (button C) are followed.
MaxReconnects == 2

\* The scheduler's environment: the menu buttons are left alone, button C
\* and the connection attempts are free, the sensors answer or fail.
Env ==
    [ gpio    |-> {TRUE},
      gpioC   |-> BOOLEAN,
      boot    |-> { o \in ConnectOutcomes : o.ms = ConnectQuick /\ o.ok = o.mqtt },
      connect |-> { o \in ConnectOutcomes : o.ok = o.mqtt },
      aht     |-> { AhtShort, AhtRead(FrameHot) },
      bh      |-> { BhRead(2, 88) },
      link    |-> {"CYW43_LINK_UP"},
      horizon |-> MaxTime,
      reconnects |-> MaxReconnects ]

\* The application's environment: every kind of sensor answer.
EnvApp ==
    [ gpio    |-> {TRUE},
      gpioC   |-> BOOLEAN,
      boot    |-> { o \in ConnectOutcomes : o.ms = ConnectQuick },
      connect |-> { o \in ConnectOutcomes : o.ms = ConnectQuick },
      aht     |-> { AhtShort, AhtRead(FrameBusy), AhtRead(FrameNormal),
                    AhtRead(FrameHot), AhtRead(FrameCold), AhtRead(FrameDamp) },
      bh      |-> { BhShort, BhRead(0, 12), BhRead(2, 88) },
      link    |-> LinkStatuses,
      horizon |-> MaxTimeApp,
      reconnects |-> MaxReconnects ]

\* The environment of the liveness check: the temperature/humidity sensor may
\* fail or be busy at every poll, the light sensor fails at every poll, every
\* connection attempt may fail and the link is reported down at every
\* publish; one reconnection is followed.
EnvLive ==
    [ gpio    |-> {TRUE},
      gpioC   |-> BOOLEAN,
      boot    |-> { o \in ConnectOutcomes : o.ms = ConnectQuick },
      connect |-> { o \in ConnectOutcomes : o.ms = ConnectQuick },
      aht     |-> { AhtShort, AhtRead(FrameBusy), AhtRead(FrameHot) },
      bh      |-> { BhShort },
      link    |-> {"CYW43_LINK_DOWN"},
      horizon |-> MaxTime,
      reconnects |-> 1 ]

\* The publishers' environment: the link status is free at every publish,
\* the broker session may or may not start with the connection, the sensors
\* answer out of range or fail; one reconnection is followed.
EnvPub ==
    [ gpio    |-> {TRUE},
      gpioC   |-> BOOLEAN,
      boot    |-> { o \in ConnectOutcomes : o.ms = ConnectQuick },
      connect |-> { o \in ConnectOutcomes : o.ms = ConnectQuick },
      aht     |-> { AhtShort, AhtRead(FrameHot) },
      bh      |-> { BhShort, BhRead(0, 12) },
      link    |-> LinkStatuses,
      horizon |-> MaxTime,
      reconnects |-> 1 ]

\* The session of the client after wifi_connect(): mqtt_setup() runs when the
\* association succeeded, and mqtt_client_connect() returning ERR_OK (mqtt)
\* leaves a new client waiting for the broker's answer.
MqttSetup(ok, mqtt, session) ==
    IF ok THEN (IF mqtt THEN "connecting" ELSE "none") ELSE session

\* How far the clock is followed with the menu buttons in use.
MaxTimeMenu == 2400

\* The environment of the menu: the three buttons are free, the sensors
\* answer out of range or fail; one reconnection is followed.
EnvMenu ==
    [ gpio    |-> BOOLEAN,
      gpioC   |-> BOOLEAN,
      boot    |-> { o \in ConnectOutcomes : o.ms = ConnectQuick /\ o.ok = o.mqtt },
      connect |-> { o \in ConnectOutcomes : o.ms = ConnectQuick /\ o.ok = o.mqtt },
      aht     |-> { AhtShort, AhtRead(FrameHot) },
      bh      |-> { BhRead(0, 12) },
      link    |-> {"CYW43_LINK_UP"},
      horizon |-> MaxTimeMenu,
      reconnects |-> 1 ]

\* How far the clock is followed with the broker answering.
MaxTimeBroker == 10400

\* The environment of the broker session: every connection attempt ends
\* quickly, with or without the association and the start of a session; the
\* sensors answer, the link is reported up; one reconnection is followed.
EnvBroker ==
    [ gpio    |-> {TRUE},
      gpioC   |-> BOOLEAN,
      boot    |-> { o \in ConnectOutcomes : o.ms = ConnectQuick },
      connect |-> { o \in ConnectOutcomes : o.ms = ConnectQuick },
      aht     |-> { AhtRead(FrameHot) },
      bh      |-> { BhRead(2, 88) },
      link    |-> {"CYW43_LINK_UP"},
      horizon |-> MaxTimeBroker,
      reconnects |-> 1 ]

\* The environment in which every writer of the application state acts: the
\* three buttons are free, one reconnection is followed and succeeds, the
\* temperature/humidity sensor answers out of range or fails, and the clock
\* is followed until every task has fired.
EnvAll ==
    [ gpio    |-> BOOLEAN,
      gpioC   |-> BOOLEAN,
      boot    |-> { o \in ConnectOutcomes : o.ms = ConnectQuick /\ o.ok /\ o.mqtt },
      connect |-> { o \in ConnectOutcomes : o.ms = ConnectQuick /\ o.ok /\ o.mqtt },
      aht     |-> { AhtShort, AhtRead(FrameHot) },
      bh      |-> { BhRead(0, 12) },
      link    |-> {"CYW43_LINK_UP"},
      horizon |-> MaxTime,
      reconnects |-> 1 ]

\* The environment of a link that goes away: the first connection may
\* succeed, every reconnection fails, at once or after the timeout, and the
\* link status is free at every publish.
EnvLink ==
    [ gpio    |-> {TRUE},
      gpioC   |-> BOOLEAN,
      boot    |-> { o \in ConnectOutcomes : o.ms = ConnectQuick },
      connect |-> { o \in ConnectOutcomes : ~o.ok },
      aht     |-> { AhtRead(FrameHot) },
      bh      |-> { BhRead(2, 88) },
      link    |-> LinkStatuses,
      horizon |-> MaxTime,
      reconnects |-> 1 ]

\* -------------------------------------------------------------------- Init
\* The state in which main() enters while (true): setup_hardware() ran, the
\* first wifi_connect() returned, the five timers were armed.
InitE(E) ==
    \E o \in E.boot, la \in E.gpio, lb \in E.gpio, lc \in E.gpioC :
        /\ now = BOOT_DELAY_MS + o.ms
        /\ t0 = now
        /\ pc = "buttons"
        /\ iter_start = now
        /\ timer = [t \in Tasks |-> MakeTimeoutTimeMs(Period(t))]
        /\ runs = [t \in Tasks |-> 0]
        /\ last = [task |-> "none", due |-> 0, at |-> 0, iter |-> 0]
        /\ app_state =
              [ current_menu |-> MENU_MEASUREMENTS,
                sensors |-> [temperature |-> 0, humidity |-> 0, lux |-> 0,
                             aht_ok |-> FALSE, lux_ok |-> FALSE],
                wifi    |-> [connected |-> o.ok],
                alerts  |-> [temp_critical |-> FALSE, humidity_critical |-> FALSE,
                             lux_critical |-> FALSE, any_critical |-> FALSE] ]
        /\ btn = [a |-> la, b |-> lb, c |-> lc]
        /\ reconnects = 0
        /\ conct_status_mqtt = (o.ok /\ o.mqtt)
        /\ alerts_before = app_state.alerts
        /\ i2c = NoTransfer
        /\ disp = Blank
        /\ led = << >>
        /\ broker = MqttSetup(o.ok, o.mqtt, "none")
        /\ published = << >>
        /\ sent = [data |-> 0, alert |-> 0]
        /\ report = << >>
        /\ checked = << >>
    /\ checked = << >>

\* ----------------------------------------------------------------- actions
\* What lwIP may report to mqtt_connection_cb().
MqttConnectionStatuses ==
    {"MQTT_CONNECT_ACCEPTED", "MQTT_CONNECT_REFUSED_SERVER", "MQTT_CONNECT_DISCONNECTED"}

\* mqtt_connection_cb(): called by lwIP, between any two steps of the loop,
\* when the broker answers the connection request or the session ends.
MqttConnectionCb ==
    /\ \E status \in MqttConnectionStatuses :
          /\ \/ broker = "connecting" /\ status # "MQTT_CONNECT_DISCONNECTED"
             \/ broker = "accepted" /\ status = "MQTT_CONNECT_DISCONNECTED"
          /\ conct_status_mqtt' = (status = "MQTT_CONNECT_ACCEPTED")
          /\ broker' = IF status = "MQTT_CONNECT_ACCEPTED" THEN "accepted" ELSE "closed"
    /\ published' = << >>
    /\ report' = << >>
    /\ checked' = << >>
    /\ UNCHANGED <<now, t0, pc, iter_start, timer, runs, last, app_state, btn, reconnects,
                   alerts_before, i2c, disp, sent, led>>

\* Mutant: a button reports a press whenever its pin is read low.
ButtonPressedWhileLow(last_state, current_state) == ~current_state

\* button_pressed(): falling edge of the pin against last_state.
ButtonPressed(last_state, current_state) == last_state /\ ~current_state

\* app_state.current_menu = (app_state.current_menu + MENU_COUNT - 1) % MENU_COUNT
MenuPrev(m) == (m + MENU_COUNT - 1) % MENU_COUNT

\* Mutant: the menu stops at the last screen.
MenuNextSaturating(m) == IF m = MENU_COUNT - 1 THEN m ELSE m + 1

\* app_state.current_menu = (app_state.current_menu + 1) % MENU_COUNT
MenuNext(m) == (m + 1) % MENU_COUNT

\* Mutant: wifi_connect() stores the outcome of the attempt in the flag.
WifiConnectStoringOutcome(ok, connected) == ok

\* wifi_connect(): app_state.wifi.connected = true on success; a failed
\* attempt returns before the flag is written.
WifiConnect(ok, connected) == IF ok THEN TRUE ELSE connected

\* The three button polls at the top of the loop body; button C runs
\* wifi_connect(), which blocks for o.ms.
ProcessButtons(E) ==
    /\ pc = "buttons"
    /\ UNCHANGED led
    /\ \E la \in E.gpio, lb \in E.gpio, lc \in E.gpioC :
         LET m1 == IF ButtonPressed(btn.a, la)
                   THEN MenuPrev(app_state.current_menu)
                   ELSE app_state.current_menu
             m2 == IF ButtonPressed(btn.b, lb) THEN MenuNext(m1) ELSE m1
         IN  /\ btn' = [a |-> la, b |-> lb, c |-> lc]
             /\ IF ButtonPressed(btn.c, lc)
                THEN \E o \in E.connect :
                       /\ now + o.ms - t0 <= E.horizon
                       /\ reconnects < E.reconnects
                       /\ reconnects' = reconnects + 1
                       /\ now' = now + o.ms
                       /\ app_state' = [app_state EXCEPT
                                          !.current_menu = m2,
                                          !.wifi.connected = WifiConnect(o.ok, @)]
                       /\ conct_status_mqtt' = IF o.ok THEN o.mqtt ELSE conct_status_mqtt
                       /\ broker' = MqttSetup(o.ok, o.mqtt, broker)
                ELSE /\ app_state' = [app_state EXCEPT !.current_menu = m2]
                     /\ UNCHANGED <<now, conct_status_mqtt, reconnects, broker>>
    /\ iter_start' = now'
    /\ pc' = "sensor"
    /\ published' = << >>
    /\ report' = << >>
    /\ checked' = << >>
    /\ UNCHANGED <<t0, timer, runs, last, alerts_before, i2c, disp, sent>>

\* Mutant: a firing moves every timer on by the period of the task that fired.
FireShiftingAll(t) ==
    /\ timer' = [u \in Tasks |-> DelayedByMs(timer[u], Period(t))]
    /\ runs' = [runs EXCEPT ![t] = @ + 1]
    /\ last' = [task |-> t, due |-> timer[t], at |-> now, iter |-> iter_start]

\* The bookkeeping of a firing: the timer moves on by the task's period.
Fire(t) ==
    /\ timer' = [timer EXCEPT ![t] = DelayedByMs(@, Period(t))]
    /\ runs' = [runs EXCEPT ![t] = @ + 1]
    /\ last' = [task |-> t, due |-> timer[t], at |-> now, iter |-> iter_start]

\* Mutant: a reading that was valid stays valid when its read fails.
ReadSensorsLatching(s, ax, bx) ==
    LET a == Aht10ReadData(ax, s.temperature, s.humidity)
        b == Bh1750ReadLux(bx)
    IN  [temperature |-> a.temp, humidity |-> a.humidity, lux |-> b.lux,
         aht_ok |-> a.ok \/ s.aht_ok, lux_ok |-> b.ok \/ s.lux_ok]

\* read_sensors(): both transactions, then check_critical_values().
ReadSensors(s, ax, bx) ==
    LET a == Aht10ReadData(ax, s.temperature, s.humidity)
        b == Bh1750ReadLux(bx)
    IN  [temperature |-> a.temp, humidity |-> a.humidity, lux |-> b.lux,
         aht_ok |-> a.ok, lux_ok |-> b.ok]

SensorTask(E) ==
    /\ pc = "sensor"
    /\ UNCHANGED broker
    /\ IF Due("sensor")
       THEN \E ax \in E.aht, bx \in E.bh :
              LET s == ReadSensors(app_state.sensors, ax, bx)
                  al == CheckCriticalValues(s)
              IN  /\ app_state' = [app_state EXCEPT !.sensors = s, !.alerts = al]
                  /\ alerts_before' = app_state.alerts
                  /\ i2c' = [aht |-> ax, bh |-> bx,
                             was |-> [aht_ok |-> app_state.sensors.aht_ok,
                                      lux_ok |-> app_state.sensors.lux_ok]]
                  /\ led' = LedWrites(al)
                  /\ now' = now + AHT_MEASURE_MS
                                + (IF al.any_critical THEN LED_PULSE_MS ELSE 0)
                  /\ Fire("sensor")
       ELSE UNCHANGED <<now, app_state, timer, runs, last, alerts_before, i2c, led>>
    /\ pc' = "display"
    /\ published' = << >>
    /\ report' = << >>
    /\ checked' = << >>
    /\ UNCHANGED <<t0, iter_start, btn, reconnects, conct_status_mqtt, disp, sent>>

\* Mutant: a refresh of the display marks the readings it has shown as used
\* up, clearing their validity flags.
DisplayTaskConsuming ==
    /\ pc = "display"
    /\ UNCHANGED <<led, broker>>
    /\ UNCHANGED <<now, t0, iter_start, btn, reconnects, conct_status_mqtt,
                   alerts_before, i2c, sent>>
    /\ IF Due("display")
       THEN /\ disp' = UpdateDisplay(app_state)
            /\ app_state' = [app_state EXCEPT !.sensors.aht_ok = FALSE,
                                               !.sensors.lux_ok = FALSE]
            /\ Fire("display")
       ELSE UNCHANGED <<disp, app_state, timer, runs, last>>
    /\ published' = << >>
    /\ report' = << >>
    /\ checked' = << >>
    /\ pc' = "wifi"

\* update_display() every 200 ms.
DisplayTask ==
    /\ pc = "display"
    /\ UNCHANGED broker
    /\ UNCHANGED led
    /\ UNCHANGED <<now, t0, iter_start, app_state, btn, reconnects, conct_status_mqtt,
                   alerts_before, i2c, sent>>
    /\ IF Due("display")
       THEN /\ disp' = UpdateDisplay(app_state)
            /\ Fire("display")
       ELSE UNCHANGED <<disp, timer, runs, last>>
    /\ published' = << >>
    /\ report' = << >>
    /\ checked' = << >>
    /\ pc' = "wifi"

\* send_data_to_phone() every 5 s, when app_state.wifi.connected.
WifiTask ==
    /\ pc = "wifi"
    /\ UNCHANGED broker
    /\ UNCHANGED led
    /\ UNCHANGED <<now, t0, iter_start, app_state, btn, reconnects, conct_status_mqtt,
                   alerts_before, i2c, disp, sent>>
    /\ IF Due("wifi")
       THEN /\ report' = SendDataToPhone(app_state)
            /\ Fire("wifi")
       ELSE /\ report' = << >>
            /\ UNCHANGED <<timer, runs, last>>
    /\ published' = << >>
    /\ checked' = << >>
    /\ pc' = "mqtt"

\* mqtt_publish_sensor_data_func() every 10 s, when app_state.wifi.connected.
MqttTask(E) ==
    /\ pc = "mqtt"
    /\ UNCHANGED broker
    /\ UNCHANGED led
    /\ UNCHANGED <<now, t0, iter_start, app_state, btn, reconnects, conct_status_mqtt,
                   alerts_before, i2c, disp>>
    /\ IF Due("mqtt")
       THEN /\ \E link \in E.link :
                 /\ published' = MqttPublishSensorDataFunc(app_state, link)
                 /\ checked' = SensorDataQueries(app_state, link)
            /\ sent' = [sent EXCEPT !.data = @ + Len(published')]
            /\ Fire("mqtt")
       ELSE /\ published' = << >>
            /\ checked' = << >>
            /\ UNCHANGED <<sent, timer, runs, last>>
    /\ report' = << >>
    /\ pc' = "alert"

\* mqtt_publish_alerts_func() every 30 s, when app_state.wifi.connected.
AlertTask(E) ==
    /\ pc = "alert"
    /\ UNCHANGED broker
    /\ UNCHANGED led
    /\ UNCHANGED <<now, t0, iter_start, app_state, btn, reconnects, conct_status_mqtt,
                   alerts_before, i2c, disp>>
    /\ IF Due("alert")
       THEN /\ \E link \in E.link :
                 /\ published' = MqttPublishAlertsFunc(app_state, link)
                 /\ checked' = AlertsQueries(app_state, link)
            /\ sent' = [sent EXCEPT !.alert = @ + Len(published')]
            /\ Fire("alert")
       ELSE /\ published' = << >>
            /\ checked' = << >>
            /\ UNCHANGED <<sent, timer, runs, last>>
    /\ report' = << >>
    /\ pc' = "idle"

\* The earliest pending due time.
NextDue == CHOOSE d \in {timer[t] : t \in Tasks} : \A t \in Tasks : d <= timer[t]

\* Mutant: the jump back goes to the due checks, past the button polls.
TightLoopSkippingButtons(E) ==
    /\ pc = "idle"
    /\ UNCHANGED <<led, broker>>
    /\ now' = IF NextDue > now /\ NextDue - t0 <= E.horizon THEN NextDue ELSE now
    /\ pc' = "sensor"
    /\ published' = << >>
    /\ report' = << >>
    /\ checked' = << >>
    /\ UNCHANGED <<t0, iter_start, timer, runs, last, app_state, btn, reconnects,
                   conct_status_mqtt, alerts_before, i2c, disp, sent>>

\* tight_loop_contents() and the jump back to the top: with nothing due the
\* loop polls until the clock reaches the next due time.
TightLoop(E) ==
    /\ pc = "idle"
    /\ UNCHANGED broker
    /\ UNCHANGED led
    /\ now' = IF NextDue > now /\ NextDue - t0 <= E.horizon THEN NextDue ELSE now
    /\ pc' = "buttons"
    /\ published' = << >>
    /\ report' = << >>
    /\ checked' = << >>
    /\ UNCHANGED <<t0, iter_start, timer, runs, last, app_state, btn, reconnects,
                   conct_status_mqtt, alerts_before, i2c, disp, sent>>

NextE(E) ==
    \/ ProcessButtons(E)
    \/ SensorTask(E)
    \/ DisplayTask
    \/ WifiTask
    \/ MqttTask(E)
    \/ AlertTask(E)
    \/ TightLoop(E)

Init == InitE(Env)
Next == NextE(Env)
Spec == Init /\ [][Next]_vars

\* The loop is the only thread of control and never waits for anything but
\* the calls modelled here, which return: it always takes its next step.
InitLive == InitE(EnvLive)
NextLive == NextE(EnvLive)
SpecLive == InitLive /\ [][NextLive]_vars /\ WF_vars(NextLive)

InitPub == InitE(EnvPub)
NextPub == NextE(EnvPub)
SpecPub == InitPub /\ [][NextPub]_vars

InitApp == InitE(EnvApp)
NextApp == NextE(EnvApp)
SpecApp == InitApp /\ [][NextApp]_vars

InitMenu == InitE(EnvMenu)
NextMenu == NextE(EnvMenu)
SpecMenu == InitMenu /\ [][NextMenu]_vars

InitLink == InitE(EnvLink)
NextLink == NextE(EnvLink)
SpecLink == InitLink /\ [][NextLink]_vars

InitAll == InitE(EnvAll)
NextAll == NextE(EnvAll)
SpecAll == InitAll /\ [][NextAll]_vars

\* The loop with the broker's answers arriving at any point of it.
InitBroker == InitE(EnvBroker)
NextBroker == NextE(EnvBroker) \/ MqttConnectionCb
SpecBroker == InitBroker /\ [][NextBroker]_vars

\* ------------------------------------------------- the AHT10 decoder alone
\* Buffers with the busy bit set and every other bit set, clear, or those of
\* a measurement; buffers without it.
FrameBusyOnes  == <<255, 255, 255, 255, 255, 255>>
FrameBusyZeros == <<128, 0, 0, 0, 0, 0>>
FrameBusyCold  == <<156, 102, 102, 101, 49, 38>>
FrameReadyOnes == <<127, 255, 255, 255, 255, 255>>
\* Buffers built from the extreme values of every byte, both nibbles of
\* byte 3 apart, and neighbouring values of the last byte.
FrameGrid ==
    { <<b0, b1, b2, b3, b4, b5>> :
        b0 \in {0, 128}, b1 \in {0, 255}, b2 \in {0, 255},
        b3 \in {0, 15, 240, 255}, b4 \in {0, 255}, b5 \in {0, 1, 255} }
AhtFrames ==
    { FrameNormal, FrameHot, FrameCold, FrameDamp, FrameReadyOnes,
      FrameBusyOnes, FrameBusyZeros, FrameBusyCold } \cup FrameGrid

\* What the two bus calls of aht10_read_data() may return.
AhtWriteResults == { AHT_TRIGGER_LEN, PICO_ERROR_GENERIC }
AhtReadResults == { PICO_ERROR_GENERIC, 0, 1, 5, AHT_FRAME_LEN }

\* The values *temp and *humidity hold on entry: those of startup, or those
\* decoded from an earlier FrameHot.
AhtStored ==
    { [temp |-> 0, humidity |-> 0],
      [temp |-> TempOf(RawTemp(FrameHot)), humidity |-> HumidityOf(RawHumidity(FrameHot))] }

\* One call of aht10_read_data() on given answers of the bus.
InitAht ==
    /\ now = BOOT_DELAY_MS
    /\ t0 = now
    /\ pc = "read"
    /\ iter_start = now
    /\ timer = [t \in Tasks |-> MakeTimeoutTimeMs(Period(t))]
    /\ runs = [t \in Tasks |-> 0]
    /\ last = [task |-> "none", due |-> 0, at |-> 0, iter |-> 0]
    /\ \E st \in AhtStored, ok \in BOOLEAN :
          app_state =
              [ current_menu |-> MENU_MEASUREMENTS,
                sensors |-> [temperature |-> st.temp, humidity |-> st.humidity,
                             lux |-> 0, aht_ok |-> ok, lux_ok |-> FALSE],
                wifi    |-> [connected |-> FALSE],
                alerts  |-> [temp_critical |-> FALSE, humidity_critical |-> FALSE,
                             lux_critical |-> FALSE, any_critical |-> FALSE] ]
    /\ btn = [a |-> TRUE, b |-> TRUE, c |-> TRUE]
    /\ reconnects = 0
    /\ conct_status_mqtt = FALSE
    /\ alerts_before = app_state.alerts
    /\ \E w \in AhtWriteResults, n \in AhtReadResults, f \in AhtFrames :
          i2c = [aht |-> [w |-> w, n |-> n, data |-> f], bh |-> NoTransfer.bh,
                 was |-> [aht_ok |-> app_state.sensors.aht_ok,
                          lux_ok |-> app_state.sensors.lux_ok]]
    /\ disp = Blank
    /\ led = << >>
    /\ broker = "none"
    /\ published = << >>
    /\ sent = [data |-> 0, alert |-> 0]
    /\ report = << >>
    /\ checked = << >>

\* sensors->aht_ok = aht10_read_data(&sensors->temperature, &sensors->humidity)
ReadAht ==
    /\ pc = "read"
    /\ UNCHANGED broker
    /\ UNCHANGED led
    /\ LET a == Aht10ReadData(i2c.aht, app_state.sensors.temperature,
                              app_state.sensors.humidity)
       IN  app_state' = [app_state EXCEPT !.sensors.temperature = a.temp,
                                          !.sensors.humidity = a.humidity,
                                          !.sensors.aht_ok = a.ok]
    /\ now' = now + AHT_MEASURE_MS
    /\ pc' = "read_done"
    /\ UNCHANGED <<t0, iter_start, timer, runs, last, btn, reconnects, conct_status_mqtt,
                   alerts_before, i2c, disp, published, sent, report, checked>>

NextAht == ReadAht
SpecAht == InitAht /\ [][NextAht]_vars

\* ------------------------------------------------ the BH1750 decoder alone
\* The high byte of the measurements handed to bh1750_read_lux() goes up to
\* BhMaxHigh; the low byte takes every value that keeps raw at 0 or above 9.
BhMaxHigh == 7
BhFrames == { <<hi, lo>> : hi \in 0 .. BhMaxHigh, lo \in {0} \cup (10 .. 255) }

\* What i2c_read_blocking() may return to bh1750_read_lux().
BhReadResults == { PICO_ERROR_GENERIC, 0, 1, BH_FRAME_LEN }

\* The values *lux holds on entry: that of startup, or that of raw 600.
BhStored == { 0, LuxOf(600) }

\* One call of bh1750_read_lux() on a given answer of the bus.
InitBh ==
    /\ now = BOOT_DELAY_MS
    /\ t0 = now
    /\ pc = "lux"
    /\ iter_start = now
    /\ timer = [t \in Tasks |-> MakeTimeoutTimeMs(Period(t))]
    /\ runs = [t \in Tasks |-> 0]
    /\ last = [task |-> "none", due |-> 0, at |-> 0, iter |-> 0]
    /\ \E st \in BhStored, ok \in BOOLEAN :
          app_state =
              [ current_menu |-> MENU_MEASUREMENTS,
                sensors |-> [temperature |-> 0, humidity |-> 0,
                             lux |-> st, aht_ok |-> FALSE, lux_ok |-> ok],
                wifi    |-> [connected |-> FALSE],
                alerts  |-> [temp_critical |-> FALSE, humidity_critical |-> FALSE,
                             lux_critical |-> FALSE, any_critical |-> FALSE] ]
    /\ btn = [a |-> TRUE, b |-> TRUE, c |-> TRUE]
    /\ reconnects = 0
    /\ conct_status_mqtt = FALSE
    /\ alerts_before = app_state.alerts
    /\ \E n \in BhReadResults, f \in BhFrames :
          i2c = [aht |-> NoTransfer.aht, bh |-> [n |-> n, data |-> f],
                 was |-> [aht_ok |-> app_state.sensors.aht_ok,
                          lux_ok |-> app_state.sensors.lux_ok]]
    /\ disp = Blank
    /\ led = << >>
    /\ broker = "none"
    /\ published = << >>
    /\ sent = [data |-> 0, alert |-> 0]
    /\ report = << >>
    /\ checked = << >>

\* sensors->lux_ok = bh1750_read_lux(&sensors->lux)
ReadBh ==
    /\ pc = "lux"
    /\ UNCHANGED broker
    /\ UNCHANGED led
    /\ LET b == Bh1750ReadLux(i2c.bh)
       IN  app_state' = [app_state EXCEPT !.sensors.lux = b.lux,
                                          !.sensors.lux_ok = b.ok]
    /\ pc' = "lux_done"
    /\ UNCHANGED <<now, t0, iter_start, timer, runs, last, btn, reconnects,
                   conct_status_mqtt, alerts_before, i2c, disp, published, sent,
                   report, checked>>

NextBh == ReadBh
SpecBh == InitBh /\ [][NextBh]_vars

\* ------------------------------------------------- the alert engine alone
\* Floats handed to check_critical_values(): 14.9f and the like, the limits
\* themselves and their neighbours in float.
F149 == (149 * FloatOne) \div 10
TempInputs ==
    { 0 - 10 * FloatOne, 0, F149, TEMP_MIN - 1, TEMP_MIN, 25 * FloatOne,
      TEMP_MAX, TEMP_MAX + 2, 36 * FloatOne }
HumidityInputs == { 0, 50 * FloatOne, HUMIDITY_MAX - 8, HUMIDITY_MAX, HUMIDITY_MAX + 8 }
LuxInputs == { 0, LUX_MIN - 4, LUX_MIN, LUX_MIN + 4, 2000 * FloatOne }

AlertSnapshots ==
    { a \in [temp_critical : BOOLEAN, humidity_critical : BOOLEAN,
             lux_critical : BOOLEAN, any_critical : BOOLEAN] :
        a.any_critical = (a.temp_critical \/ a.humidity_critical \/ a.lux_critical) }

\* One call of check_critical_values() on given readings, over a previous snapshot.
InitAlert ==
    /\ now = BOOT_DELAY_MS
    /\ t0 = now
    /\ pc = "evaluate"
    /\ iter_start = now
    /\ timer = [t \in Tasks |-> MakeTimeoutTimeMs(Period(t))]
    /\ runs = [t \in Tasks |-> 0]
    /\ last = [task |-> "none", due |-> 0, at |-> 0, iter |-> 0]
    /\ \E te \in TempInputs, hu \in HumidityInputs, lu \in LuxInputs,
          aok \in BOOLEAN, lok \in BOOLEAN, al \in AlertSnapshots :
          app_state =
              [ current_menu |-> MENU_MEASUREMENTS,
                sensors |-> [temperature |-> te, humidity |-> hu, lux |-> lu,
                             aht_ok |-> aok, lux_ok |-> lok],
                wifi    |-> [connected |-> FALSE],
                alerts  |-> al ]
    /\ btn = [a |-> TRUE, b |-> TRUE, c |-> TRUE]
    /\ reconnects = 0
    /\ conct_status_mqtt = FALSE
    /\ alerts_before = app_state.alerts
    /\ i2c = NoTransfer
    /\ disp = Blank
    /\ led = << >>
    /\ broker = "none"
    /\ published = << >>
    /\ sent = [data |-> 0, alert |-> 0]
    /\ report = << >>
    /\ checked = << >>

EvaluateAlerts ==
    /\ pc = "evaluate"
    /\ UNCHANGED broker
    /\ app_state' = [app_state EXCEPT !.alerts = CheckCriticalValues(app_state.sensors)]
    /\ alerts_before' = app_state.alerts
    /\ led' = LedWrites(app_state'.alerts)
    /\ now' = now + (IF app_state'.alerts.any_critical THEN LED_PULSE_MS ELSE 0)
    /\ pc' = "evaluated"
    /\ UNCHANGED <<t0, iter_start, timer, runs, last, btn, reconnects, conct_status_mqtt,
                   i2c, disp, published, sent, report, checked>>

NextAlert == EvaluateAlerts
SpecAlert == InitAlert /\ [][NextAlert]_vars


\* ================================================================ scheduler
\* C1: every next_due value is arm-time + k * period for some k >= 1, whatever
\* the firing times were: a firing adds exactly the task's own period.
C1_FixedPhase ==
    \A t \in Tasks :
        /\ timer[t] >= t0 + Period(t)
        /\ (timer[t] - t0) % Period(t) = 0

\* All five tasks have fired, the latest firing later than the due time it served.
C1_Witness ==
    /\ \A t \in Tasks : runs[t] >= 1
    /\ last.at > last.due

\* C2: at a task's check its action runs if and only if its next_due has been
\* reached, once, and then next_due is advanced; no task runs anywhere else.
C2_FiresIffDue ==
    [][\A t \in Tasks :
          IF pc = t /\ now >= timer[t]
          THEN runs'[t] = runs[t] + 1 /\ timer'[t] > timer[t] /\ pc' # t
          ELSE runs'[t] = runs[t] /\ timer'[t] = timer[t]]_vars

\* The network report has just fired and the telemetry task, checked next
\* in the same iteration, is not due.
C2_Witness ==
    /\ pc = "mqtt"
    /\ last.task = "wifi" /\ last.at = now
    /\ timer["mqtt"] > now

\* C3: the n-th sensor firing serves the due time arm + n * 2000 whatever the
\* earlier executions took, and with the loop not held up by a reconnection
\* it happens at that due time.
C3_DriftFree ==
    last.task = "sensor" =>
        /\ last.due = t0 + runs["sensor"] * SENSOR_PERIOD_MS
        /\ timer["sensor"] = last.due + SENSOR_PERIOD_MS
        /\ reconnects = 0 => last.at = last.due

\* The second sensor firing, at arm + 4000, after a first one that took time.
C3_Witness ==
    /\ last.task = "sensor" /\ runs["sensor"] = 2
    /\ last.at = t0 + 2 * SENSOR_PERIOD_MS
    /\ now >= last.at + AHT_MEASURE_MS + LED_PULSE_MS
    /\ app_state.alerts.any_critical

\* C4 as stated: every firing is decided against the one clock reading with
\* which the iteration's checks began.
C4_SingleReading ==
    [][\A t \in Tasks : runs'[t] # runs[t] => timer[t] <= iter_start]_vars

\* C4 amended: each check reads the clock anew, so a task whose due time was
\* reached after the iteration's checks began fires in that same iteration.
C4_FreshReading ==
    [][\A t \in Tasks :
          (pc = t /\ iter_start < timer[t] /\ timer[t] <= now)
              => runs'[t] = runs[t] + 1]_vars

\* A firing for a due time reached while an earlier task was executing.
C4_Witness ==
    /\ last.task # "none"
    /\ last.iter < last.due
    /\ last.due <= last.at

\* C5: a task that has fallen behind fires at every check, one period at a
\* time, and once its next_due is later than the clock it has fired once for
\* every due time that has elapsed.
C5_CatchUp ==
    /\ [](\A t \in Tasks : timer[t] > now => runs[t] = (now - t0) \div Period(t))
    /\ [][\A t \in Tasks :
            (pc = t /\ timer[t] + Period(t) <= now)
                => (runs'[t] = runs[t] + 1 /\ timer'[t] = timer[t] + Period(t))]_vars

\* The sensor task fires more than two periods late and is still behind.
C5_Witness ==
    /\ last.task = "sensor"
    /\ last.at >= last.due + 2 * SENSOR_PERIOD_MS
    /\ timer["sensor"] <= now


\* C6: whatever the sensors and the link do, the loop keeps iterating: a due
\* task is always served, and every task fires once for each of its due
\* times within the time followed.
C6_NeverHalts ==
    /\ (\E t \in Tasks : timer[t] <= now) ~> (\A t \in Tasks : timer[t] > now)
    /\ <>(\A t \in Tasks : runs[t] >= MaxTime \div Period(t))

\* Every task has fired although the sensors are invalid and the link is down.
C6_Witness ==
    /\ \A t \in Tasks : runs[t] >= 1
    /\ ~app_state.sensors.aht_ok /\ ~app_state.sensors.lux_ok
    /\ ~app_state.wifi.connected /\ ~conct_status_mqtt


\* ============================================================= alert engine
\* C7: in every state between task executions, so after every evaluation,
\* any_critical is the OR of the three per-quantity flags.
C7_AnyIsOr ==
    app_state.alerts.any_critical =
        (\/ app_state.alerts.temp_critical
         \/ app_state.alerts.humidity_critical
         \/ app_state.alerts.lux_critical)

\* A sensor read has left the light alert as the only one raised.
C7_Witness ==
    /\ runs["sensor"] >= 1
    /\ app_state.alerts.lux_critical /\ app_state.alerts.any_critical
    /\ ~app_state.alerts.temp_critical /\ ~app_state.alerts.humidity_critical

\* C8: an invalid reading never raises its alert, whatever numbers are stored.
C8_InvalidNeverCritical ==
    /\ ~app_state.sensors.aht_ok =>
          ~app_state.alerts.temp_critical /\ ~app_state.alerts.humidity_critical
    /\ ~app_state.sensors.lux_ok => ~app_state.alerts.lux_critical

\* Both sensors invalid while the stored numbers are all out of range.
C8_Witness ==
    /\ runs["sensor"] >= 2
    /\ ~app_state.sensors.aht_ok /\ ~app_state.sensors.lux_ok
    /\ app_state.sensors.temperature > 35 * FloatOne
    /\ app_state.sensors.humidity > 80 * FloatOne
    /\ app_state.sensors.lux < 50 * FloatOne
    /\ ~app_state.alerts.any_critical

\* C9: with a valid reading temp_critical is true exactly for a temperature
\* below 15.0 or above 35.0; 14.9 and 36.0 are critical, 25.0, 15.0 and 35.0
\* are not.
C9_TempRule ==
    (pc = "evaluated" /\ app_state.sensors.aht_ok) =>
        /\ app_state.alerts.temp_critical =
              (\/ app_state.sensors.temperature < 15 * FloatOne
               \/ app_state.sensors.temperature > 35 * FloatOne)
        /\ app_state.sensors.temperature \in {F149, 36 * FloatOne}
              => app_state.alerts.temp_critical
        /\ app_state.sensors.temperature \in {15 * FloatOne, 25 * FloatOne, 35 * FloatOne}
              => ~app_state.alerts.temp_critical

\* An evaluation of exactly 15.0, valid, found not critical.
C9_Witness ==
    /\ pc = "evaluated" /\ app_state.sensors.aht_ok
    /\ app_state.sensors.temperature = 15 * FloatOne
    /\ ~app_state.alerts.temp_critical

\* C10: with a valid reading humidity_critical is true exactly for a humidity
\* above 80.0; 80.0 itself and every lower value, down to 0, are not critical.
C10_HumidityRule ==
    (pc = "evaluated" /\ app_state.sensors.aht_ok) =>
        /\ app_state.alerts.humidity_critical =
              (app_state.sensors.humidity > 80 * FloatOne)
        /\ app_state.sensors.humidity <= 80 * FloatOne
              => ~app_state.alerts.humidity_critical

\* An evaluation of exactly 80.0, valid, found not critical.
C10_Witness ==
    /\ pc = "evaluated" /\ app_state.sensors.aht_ok
    /\ app_state.sensors.humidity = 80 * FloatOne
    /\ ~app_state.alerts.humidity_critical


\* C11: with a valid reading lux_critical is true exactly for an illuminance
\* below 50.0; 50.0 itself and every higher value, however bright, are not
\* critical.
C11_LuxRule ==
    (pc = "evaluated" /\ app_state.sensors.lux_ok) =>
        /\ app_state.alerts.lux_critical = (app_state.sensors.lux < 50 * FloatOne)
        /\ app_state.sensors.lux >= 50 * FloatOne => ~app_state.alerts.lux_critical

\* An evaluation of exactly 50.0 lux, valid, found not critical.
C11_Witness ==
    /\ pc = "evaluated" /\ app_state.sensors.lux_ok
    /\ app_state.sensors.lux = 50 * FloatOne
    /\ ~app_state.alerts.lux_critical


\* C12: the snapshot an evaluation leaves is determined by the readings and
\* validity flags it was given, whatever the snapshot before it; a flag that
\* was raised is down after the evaluation when its reading is in range or
\* invalid.
C12_NoCarryover ==
    pc = "evaluated" =>
        LET s == app_state.sensors
            a == app_state.alerts
            tIn == ~s.aht_ok \/ (s.temperature >= 15 * FloatOne /\ s.temperature <= 35 * FloatOne)
            hIn == ~s.aht_ok \/ s.humidity <= 80 * FloatOne
            lIn == ~s.lux_ok \/ s.lux >= 50 * FloatOne
        IN  /\ a.temp_critical = ~tIn
            /\ a.humidity_critical = ~hIn
            /\ a.lux_critical = ~lIn
            /\ alerts_before.temp_critical /\ tIn => ~a.temp_critical
            /\ alerts_before.humidity_critical /\ hIn => ~a.humidity_critical
            /\ alerts_before.lux_critical /\ lIn => ~a.lux_critical
            /\ (tIn /\ hIn /\ lIn) => ~a.any_critical

\* All three alerts were raised; the evaluation found temperature and
\* humidity back in range and the light sensor failed, and lowered them all.
C12_Witness ==
    /\ pc = "evaluated"
    /\ alerts_before.temp_critical /\ alerts_before.humidity_critical
    /\ alerts_before.lux_critical /\ alerts_before.any_critical
    /\ app_state.sensors.aht_ok /\ ~app_state.sensors.lux_ok
    /\ app_state.sensors.temperature = 25 * FloatOne
    /\ app_state.sensors.humidity = 50 * FloatOne
    /\ ~app_state.alerts.temp_critical /\ ~app_state.alerts.humidity_critical
    /\ ~app_state.alerts.lux_critical /\ ~app_state.alerts.any_critical


\* =============================================================== publishers
AlertTopic == "pico_w/sensors/alerts"
DataTopic == "pico_w/sensors/data"

\* C13: a message goes out on the alert topic only in an alert-publish firing
\* at which any_critical is true, and it carries the three current flags.
C13_AlertOnlyIfCritical ==
    \A i \in 1..Len(published) :
        published[i].topic = AlertTopic =>
            /\ last.task = "alert" /\ pc = "idle"
            /\ app_state.alerts.any_critical
            /\ published[i].payload.temperatura_critica = app_state.alerts.temp_critical
            /\ published[i].payload.umidade_critica = app_state.alerts.humidity_critical
            /\ published[i].payload.luz_critica = app_state.alerts.lux_critical

\* An alert message went out: temperature and humidity critical, light not.
C13_Witness ==
    /\ last.task = "alert" /\ pc = "idle"
    /\ Len(published) = 1
    /\ published[1].topic = AlertTopic
    /\ published[1].payload.temperatura_critica
    /\ published[1].payload.umidade_critica
    /\ ~published[1].payload.luz_critica

\* C14: when either status query answers down at a publish call nothing is
\* handed to the MQTT client, and a telemetry or alert step, publishing or
\* not, leaves the application state and the session flag as they were.
C14_SkipWhenDown ==
    /\ [](\A i \in 1..Len(checked) :
             (~checked[i].wifi_check \/ ~checked[i].mqtt_check) => published = << >>)
    /\ [][(pc = "mqtt" \/ pc = "alert") =>
             (app_state' = app_state /\ conct_status_mqtt' = conct_status_mqtt)]_vars

\* A telemetry firing with Wi-Fi connected whose link query answered down
\* while the broker session was reported up: nothing was published.
C14_Witness ==
    /\ last.task = "mqtt" /\ pc = "alert"
    /\ app_state.wifi.connected
    /\ checked = << [wifi_check |-> FALSE, mqtt_check |-> TRUE] >>
    /\ published = << >>

\* C15: the telemetry and alert timers advance at every firing, published or
\* not; a firing hands over at most one message, built from the readings and
\* alerts of that moment, so no more messages than firings ever go out.
C15_NoBacklog ==
    /\ [](/\ Len(published) <= 1
          /\ sent.data <= runs["mqtt"] /\ sent.alert <= runs["alert"]
          /\ \A i \in 1..Len(published) :
                published[i].topic = DataTopic =>
                   /\ last.task = "mqtt"
                   /\ (published[i].payload.temperatura.text = "number")
                         = app_state.sensors.aht_ok
                   /\ (published[i].payload.luminosidade.text = "number")
                         = app_state.sensors.lux_ok
                   /\ app_state.sensors.aht_ok =>
                         published[i].payload.temperatura
                            = Printf(Float(app_state.sensors.temperature), 2)
                   /\ app_state.sensors.lux_ok =>
                         published[i].payload.luminosidade
                            = Printf(Float(app_state.sensors.lux), 1))
    /\ [][\A t \in {"mqtt", "alert"} :
             (pc = t /\ timer[t] <= now) =>
                 (timer'[t] = timer[t] + Period(t) /\ Len(published') <= 1)]_vars

\* The third telemetry firing published one message after the first two
\* had been skipped.
C15_Witness ==
    /\ last.task = "mqtt" /\ pc = "alert"
    /\ runs["mqtt"] = 3 /\ sent.data = 1
    /\ Len(published) = 1

\* C16: in the telemetry payload and in the network report every quantity
\* whose validity flag is false is not-a-number, and the pressure is always
\* not-a-number.
C16_InvalidIsNan ==
    /\ \A i \in 1..Len(published) :
          published[i].topic = DataTopic =>
             /\ ~app_state.sensors.aht_ok =>
                   /\ published[i].payload.temperatura.text = "nan"
                   /\ published[i].payload.umidade.text = "nan"
             /\ ~app_state.sensors.lux_ok =>
                   published[i].payload.luminosidade.text = "nan"
             /\ published[i].payload.pressao.text = "nan"
    /\ \A i \in 1..Len(report) :
          /\ ~app_state.sensors.aht_ok =>
                /\ report[i].temperatura.text = "nan"
                /\ report[i].umidade.text = "nan"
          /\ ~app_state.sensors.lux_ok => report[i].luminosidade.text = "nan"

\* A telemetry message sent while the temperature/humidity reading is invalid
\* with stale out-of-range numbers stored, and the light reading is valid.
C16_Witness ==
    /\ Len(published) = 1
    /\ published[1].topic = DataTopic
    /\ ~app_state.sensors.aht_ok /\ app_state.sensors.lux_ok
    /\ app_state.sensors.temperature > 35 * FloatOne
    /\ published[1].payload.temperatura.text = "nan"
    /\ published[1].payload.umidade.text = "nan"
    /\ published[1].payload.pressao.text = "nan"
    /\ published[1].payload.luminosidade = [text |-> "number", neg |-> FALSE, dp |-> 1, digits |-> 100]


\* ================================================================== display
\* C17: the measurements screen, as last drawn from the readings now stored,
\* shows a failure text ("nan" or "Falha") and no number for every quantity
\* whose reading is invalid.
C17_InvalidShownAsFailure ==
    (last.task = "display" /\ disp.screen = "measurements") =>
        /\ ~app_state.sensors.aht_ok =>
              /\ disp.line1.text = "nan"
              /\ disp.line2.text = "nan"
        /\ ~app_state.sensors.lux_ok => disp.line4.text = "Falha"
        /\ app_state.sensors.aht_ok =>
              disp.line1 = Printf(Float(app_state.sensors.temperature), 1)

\* The screen drawn after a failed read of both sensors that left stale
\* out-of-range temperature and humidity and a zero lux in the state.
C17_Witness ==
    /\ last.task = "display" /\ disp.screen = "measurements"
    /\ runs["sensor"] >= 2
    /\ ~app_state.sensors.aht_ok /\ ~app_state.sensors.lux_ok
    /\ app_state.sensors.temperature > 35 * FloatOne
    /\ app_state.sensors.lux = 0
    /\ disp.line1.text = "nan" /\ disp.line2.text = "nan"
    /\ disp.line4.text = "Falha"


\* ============================================================ initial state
\* C18: until the first sensor read all readings are invalid and all alert
\* flags false; the timers start at arming time plus their period, no task
\* runs before its period has elapsed, and whatever the display, the report
\* or a publish produces before the first sensor read shows no measurement.
C18_InitialState ==
    /\ last.task = "none" => \A t \in Tasks : timer[t] = t0 + Period(t)
    /\ \A t \in Tasks : now < t0 + Period(t) => runs[t] = 0
    /\ runs["sensor"] = 0 =>
          /\ ~app_state.sensors.aht_ok /\ ~app_state.sensors.lux_ok
          /\ ~app_state.alerts.temp_critical /\ ~app_state.alerts.humidity_critical
          /\ ~app_state.alerts.lux_critical /\ ~app_state.alerts.any_critical
          /\ disp.screen = "measurements" =>
                /\ disp.line1.text = "nan" /\ disp.line2.text = "nan"
                /\ disp.line4.text = "Falha"
          /\ published = << >> /\ report = << >>

\* The display has been refreshed nine times and the first sensor read is
\* still to come.
C18_Witness ==
    /\ runs["sensor"] = 0 /\ runs["display"] = 9
    /\ now < t0 + SENSOR_PERIOD_MS
    /\ disp.screen = "measurements" /\ disp.line1.text = "nan"
    /\ ~app_state.sensors.aht_ok /\ ~app_state.sensors.lux_ok


\* ============================================================ AHT10 decoder
\* C19: a read is reported invalid exactly when the 6-byte read returned
\* fewer than 6 bytes or byte 0 has bit 7 set; then, whatever the other bytes
\* are, nothing is computed and the two stored values stay as they were.
C19_InvalidIffShortOrBusy ==
    pc = "read_done" =>
        LET x == i2c.aht
            short == x.n < 6
            busy == x.data[1] >= 128
        IN  /\ app_state.sensors.aht_ok = ~(short \/ busy)
            /\ (short \/ busy) =>
                  [temp |-> app_state.sensors.temperature,
                   humidity |-> app_state.sensors.humidity] \in AhtStored

\* A full read with the busy bit and every other bit set: invalid, the
\* stored startup values untouched.
C19_Witness ==
    /\ pc = "read_done"
    /\ i2c.aht.n = 6 /\ i2c.aht.data = FrameBusyOnes
    /\ ~app_state.sensors.aht_ok
    /\ app_state.sensors.temperature = 0 /\ app_state.sensors.humidity = 0

\* C20 as stated: a read in which a bus transaction failed, the write of the
\* trigger command included, is reported invalid.
C20_FailedTransactionInvalid ==
    pc = "read_done" =>
        ((i2c.aht.w # 3 \/ i2c.aht.n # 6) => ~app_state.sensors.aht_ok)

\* C21: for a 6-byte buffer with the busy bit clear, the raw humidity is
\* byte1*2^12 + byte2*2^4 + (byte3 div 16) and the raw temperature is
\* (byte3 mod 16)*2^16 + byte4*2^8 + byte5, both within 0 .. 2^20-1; the
\* high nibble of byte 3 reaches only the humidity, the low nibble only the
\* temperature, and byte 0 reaches neither.
C21_BitPacking ==
    (pc = "read_done" /\ app_state.sensors.aht_ok) =>
        LET d == i2c.aht.data
            h == d[2] * 4096 + d[3] * 16 + (d[4] \div 16)
            t == (d[4] % 16) * 65536 + d[5] * 256 + d[6]
            Decoded(g) == Aht10ReadData([i2c.aht EXCEPT !.data = g], 0, 0)
        IN  /\ h \in 0 .. 1048575 /\ t \in 0 .. 1048575
            /\ app_state.sensors.humidity = RoundF32(h * 100)
            /\ app_state.sensors.temperature = RoundF32(t * 200 - 50 * FloatOne)
            /\ \A k \in 0 .. 15 :
                  /\ Decoded([d EXCEPT ![4] = k * 16 + (d[4] % 16)]).temp
                        = app_state.sensors.temperature
                  /\ Decoded([d EXCEPT ![4] = (d[4] \div 16) * 16 + k]).humidity
                        = app_state.sensors.humidity
            /\ \A b \in 0 .. 127 :
                  /\ Decoded([d EXCEPT ![1] = b]).temp = app_state.sensors.temperature
                  /\ Decoded([d EXCEPT ![1] = b]).humidity = app_state.sensors.humidity

\* Byte 3 is 0xF0 and every other byte is 0: the humidity is that of raw 15
\* and the temperature that of raw 0.
C21_Witness ==
    /\ pc = "read_done" /\ app_state.sensors.aht_ok
    /\ i2c.aht.data = <<0, 0, 0, 240, 0, 0>>
    /\ app_state.sensors.humidity = RoundF32(15 * 100)
    /\ app_state.sensors.temperature = -(50 * FloatOne)

\* C22: humidity% = raw/2^20 * 100 and temperature = raw/2^20 * 200 - 50;
\* raw humidity 0 and 2^20-1 give 0.0 and about 100.0, raw temperature 0 and
\* 2^20-1 give -50.0 and about 150.0, both maps are strictly increasing in
\* the raw value, and the decoded pair depends on the six bytes only.
C22_Calibration ==
    (pc = "read_done" /\ app_state.sensors.aht_ok) =>
        LET d == i2c.aht.data
            h == d[2] * 4096 + d[3] * 16 + (d[4] \div 16)
            t == (d[4] % 16) * 65536 + d[5] * 256 + d[6]
            hum == app_state.sensors.humidity
            tmp == app_state.sensors.temperature
        IN  /\ Abs(hum - h * 100) <= 4
            /\ Abs(tmp - (t * 200 - 50 * FloatOne)) <= 8
            /\ h = 0 => hum = 0
            /\ t = 0 => tmp = -(50 * FloatOne)
            /\ h = 1048575 => (hum < 100 * FloatOne /\ hum > 100 * FloatOne - 200)
            /\ t = 1048575 => (tmp < 150 * FloatOne /\ tmp > 150 * FloatOne - 400)
            /\ h < 1048575 => HumidityOf(h + 1) > hum
            /\ h > 0 => HumidityOf(h - 1) < hum
            /\ t < 1048575 => TempOf(t + 1) > tmp
            /\ t > 0 => TempOf(t - 1) < tmp
            /\ \A g \in AhtFrames :
                  (~AhtBusy(g) /\ RawHumidity(g) < h) => HumidityOf(RawHumidity(g)) < hum
            /\ \A g \in AhtFrames :
                  (~AhtBusy(g) /\ RawTemp(g) < t) => TempOf(RawTemp(g)) < tmp

\* Every bit of the measurement is set: the humidity is just under 100 and
\* the temperature just under 150, whatever was stored before.
C22_Witness ==
    /\ pc = "read_done" /\ app_state.sensors.aht_ok
    /\ i2c.aht.data = FrameReadyOnes
    /\ app_state.sensors.humidity = 100 * FloatOne - 96
    /\ app_state.sensors.temperature = 150 * FloatOne - 192


\* =========================================================== BH1750 decoder
\* C23 as stated: for a complete 2-byte read, raw = byte0*256 + byte1 and
\* the stored lux is exactly raw / 1.2, that is 6*lux = 5*raw; raw 120 gives
\* 100.0.
C23_ExactQuotient ==
    (pc = "lux_done" /\ app_state.sensors.lux_ok) =>
        LET raw == i2c.bh.data[1] * 256 + i2c.bh.data[2]
            lux == app_state.sensors.lux
        IN  /\ raw \in 0 .. 65535
            /\ 3 * (lux - raw * 873813) = raw
            /\ raw = 120 => lux = 100 * FloatOne

\* C23 amended: for a complete 2-byte read, raw = byte0*256 + byte1 and the
\* stored lux is the float quotient of raw by the float 1.2f, which is
\* within one part in 2^23 of raw / 1.2 (|6*lux - 5*raw| <= 5*raw / 2^23);
\* raw 12 gives 10.0 and raw 120 gives the float next below 100.0.
C23_FloatQuotient ==
    (pc = "lux_done" /\ app_state.sensors.lux_ok) =>
        LET raw == i2c.bh.data[1] * 256 + i2c.bh.data[2]
            lux == app_state.sensors.lux
        IN  /\ raw \in 0 .. 65535
            /\ 16 * Abs(3 * (lux - raw * 873813) - raw) <= 5 * raw
            /\ raw = 12 => lux = 10 * FloatOne
            /\ raw = 120 => lux = 100 * FloatOne - 8

\* The bytes 0x00 0x78 were read: raw is 120 and the stored lux is one float
\* step under 100.
C23_Witness ==
    /\ pc = "lux_done" /\ app_state.sensors.lux_ok
    /\ i2c.bh.data = <<0, 120>>
    /\ app_state.sensors.lux = 100 * FloatOne - 8


\* C24: after a sensor read whose illuminance transaction returned fewer
\* than 2 bytes the lux reading is invalid and the stored lux is 0; that 0
\* raises no lux_critical alert, and what the display, the network report
\* and the telemetry publish then produce shows a failure, not a number.
C24_ShortLuxReadIsNoReading ==
    (runs["sensor"] >= 1 /\ i2c.bh.n < 2) =>
        /\ ~app_state.sensors.lux_ok
        /\ app_state.sensors.lux = 0
        /\ app_state.sensors.lux < LUX_MIN
        /\ ~app_state.alerts.lux_critical
        /\ (last.task = "display" /\ disp.screen = "measurements") =>
              disp.line4 = Falha
        /\ \A i \in 1..Len(report) : report[i].luminosidade.text = "nan"
        /\ \A i \in 1..Len(published) :
              /\ published[i].topic = DataTopic =>
                    published[i].payload.luminosidade.text = "nan"
              /\ published[i].topic = AlertTopic =>
                    ~published[i].payload.luz_critica

\* A telemetry message sent after a short illuminance read that followed a
\* valid reading under LUX_MIN: the alert of the earlier reading is gone and
\* the payload carries no number.
C24_Witness ==
    /\ runs["sensor"] >= 2 /\ i2c.bh.n < 2
    /\ alerts_before.lux_critical
    /\ app_state.sensors.lux = 0 /\ ~app_state.alerts.lux_critical
    /\ Len(published) = 1 /\ published[1].topic = DataTopic
    /\ published[1].payload.luminosidade.text = "nan"


\* ================================================================== polling
\* C25: a sensor-read firing makes one transaction with each sensor, waiting
\* for one measurement, and the validity flags it leaves are those of its own
\* transactions whatever the flags were before; so a reading that a failed
\* read made invalid is valid after the next firing whose transaction
\* succeeds.
C25_IndependentPolls ==
    [][(pc = "sensor" /\ runs'["sensor"] = runs["sensor"] + 1) =>
         (/\ now' - now \in {AHT_MEASURE_MS, AHT_MEASURE_MS + LED_PULSE_MS}
          /\ timer'["sensor"] = timer["sensor"] + SENSOR_PERIOD_MS
          /\ i2c'.was = [aht_ok |-> app_state.sensors.aht_ok,
                         lux_ok |-> app_state.sensors.lux_ok]
          /\ app_state'.sensors.aht_ok
                = (i2c'.aht.n = 6 /\ i2c'.aht.data[1] < 128)
          /\ app_state'.sensors.lux_ok = (i2c'.bh.n = 2))]_vars

\* The second firing succeeded with both sensors after the first had failed
\* with both.
C25_Witness ==
    /\ runs["sensor"] = 2
    /\ ~i2c.was.aht_ok /\ ~i2c.was.lux_ok
    /\ i2c.aht.n = 6 /\ i2c.bh.n = 2
    /\ app_state.sensors.aht_ok /\ app_state.sensors.lux_ok


\* ====================================================================== LED
\* C26 as stated: an alert evaluation pulses the LED when, and only when, it
\* takes any_critical from false to true; the LED is off again when the
\* evaluation returns.
C26_PulseOnRisingEdge ==
    pc = "evaluated" =>
        /\ (led # << >>) = (~alerts_before.any_critical /\ app_state.alerts.any_critical)
        /\ led # << >> => ~led[Len(led)]

\* C26 amended: an alert evaluation pulses the LED when, and only when, it
\* leaves any_critical true, whether or not any_critical was true before;
\* the pulse lasts 100 ms and the LED is off again when the evaluation
\* returns.
C26_PulseWhileCritical ==
    pc = "evaluated" =>
        /\ (led # << >>) = app_state.alerts.any_critical
        /\ led # << >> => (led[1] /\ ~led[Len(led)] /\ now - t0 = LED_PULSE_MS)
        /\ led = << >> => now = t0

\* An evaluation that found an alert already raised and left it raised has
\* pulsed the LED.
C26_Witness ==
    /\ pc = "evaluated"
    /\ alerts_before.any_critical /\ app_state.alerts.any_critical
    /\ led = <<TRUE, FALSE>> /\ now - t0 = LED_PULSE_MS


\* ===================================================================== menu
\* C27: the menu index is always one of 0..3; a press of button B moves it
\* forward by one modulo 4 and a press of button A back by one modulo 4, so
\* that an A press followed by a B press, or four presses of one button,
\* restore it; nothing but the button polls moves it, and the button polls
\* change no readings, alerts or timers.
C27_MenuCycle ==
    /\ [](/\ app_state.current_menu \in 0 .. 3
          /\ MenuNext(MenuPrev(app_state.current_menu)) = app_state.current_menu
          /\ MenuPrev(MenuNext(app_state.current_menu)) = app_state.current_menu
          /\ MenuNext(MenuNext(MenuNext(MenuNext(app_state.current_menu))))
                = app_state.current_menu
          /\ MenuPrev(MenuPrev(MenuPrev(MenuPrev(app_state.current_menu))))
                = app_state.current_menu)
    /\ [][IF pc = "buttons"
          THEN LET a == btn.a /\ ~btn'.a
                   b == btn.b /\ ~btn'.b
                   m == app_state.current_menu
               IN  (/\ (a /\ b) => app_state'.current_menu = m
                    /\ (a /\ ~b) => app_state'.current_menu = (m + 3) % 4
                    /\ (~a /\ b) => app_state'.current_menu = (m + 1) % 4
                    /\ (~a /\ ~b) => app_state'.current_menu = m
                    /\ app_state'.sensors = app_state.sensors
                    /\ app_state'.alerts = app_state.alerts
                    /\ timer' = timer /\ runs' = runs)
          ELSE app_state'.current_menu = app_state.current_menu]_vars

\* The first poll of the buttons found A pressed and B released: the menu
\* went back from 0 to 3.
C27_Witness ==
    /\ pc = "sensor" /\ now = t0
    /\ ~btn.a /\ btn.b
    /\ app_state.current_menu = MENU_MQTT


\* =========================================================== broker session
\* C28 as stated: mqtt_check() is true only while the broker has accepted
\* the connection and no later callback has reported a failure, and no
\* payload is handed to the MQTT client before the session is established.
C28_TrueOnlyWhileAccepted ==
    /\ MqttCheck => broker = "accepted"
    /\ published # << >> => broker = "accepted"


\* ======================================================== writers and order
\* C29: the stored readings, the validity flags and the alert flags change
\* only in a firing of the sensor-read task: the display refresh, the
\* network report, the two publishes, the button polls (menu presses and
\* reconnection) and the idle step leave all of them as they were.
C29_OnlySensorTaskWrites ==
    [][(app_state'.sensors # app_state.sensors \/ app_state'.alerts # app_state.alerts)
          => (pc = "sensor" /\ runs'["sensor"] = runs["sensor"] + 1)]_vars

\* Every other task has fired, a reconnection was made and the menu was
\* moved, and the readings and alerts are those of a valid sensor read.
C29_Witness ==
    /\ runs["display"] >= 1 /\ runs["wifi"] >= 1 /\ runs["mqtt"] >= 1
    /\ last.task = "alert" /\ published # << >>
    /\ reconnects = 1 /\ app_state.current_menu # MENU_MEASUREMENTS
    /\ app_state.sensors.aht_ok /\ app_state.sensors.lux_ok
    /\ app_state.alerts.temp_critical /\ app_state.alerts.lux_critical


\* C30: an iteration polls the buttons first and then checks the tasks in
\* the order sensor read, display refresh, network report, telemetry
\* publish, alert publish; a consumer that fires in an iteration whose
\* sensor read fired (the clock has moved since the due checks began) works
\* on the readings and alerts of that read, which are those decoded from the
\* bus answers of that firing.
C30_OrderAndFreshness ==
    /\ [][pc' = CASE pc = "buttons" -> "sensor"
                  [] pc = "sensor"  -> "display"
                  [] pc = "display" -> "wifi"
                  [] pc = "wifi"    -> "mqtt"
                  [] pc = "mqtt"    -> "alert"
                  [] pc = "alert"   -> "idle"
                  [] pc = "idle"    -> "buttons"]_vars
    /\ []((now > iter_start /\ pc \in {"wifi", "mqtt", "alert", "idle"}) =>
            LET valid == i2c.aht.n = 6 /\ i2c.aht.data[1] < 128
                temp  == TempOf(RawTemp(i2c.aht.data))
                T(dp) == Printf(IF valid THEN Float(temp) ELSE NAN, dp)
                crit  == valid /\ (temp < TEMP_MIN \/ temp > TEMP_MAX)
            IN  /\ (last.task = "display" /\ disp.screen = "measurements") =>
                      disp.line1 = T(1)
                /\ \A i \in 1..Len(report) :
                      /\ report[i].temperatura = T(2)
                      /\ report[i].alertas.temperatura = crit
                /\ \A i \in 1..Len(published) :
                      /\ published[i].topic = DataTopic =>
                            published[i].payload.temperatura = T(2)
                      /\ published[i].topic = AlertTopic =>
                            published[i].payload.temperatura_critica = crit)

\* The sensor read and the alert publish fired in the same iteration; the
\* read found the temperature out of range after a failed read, and the
\* alert message carries the temperature alert of this read.
C30_Witness ==
    /\ pc = "idle" /\ now > iter_start
    /\ last.task = "alert" /\ last.iter = iter_start
    /\ ~alerts_before.temp_critical
    /\ Len(published) = 1 /\ published[1].topic = AlertTopic
    /\ published[1].payload.temperatura_critica


\* =================================================================== timers
\* C31: a step of the loop changes at most one timer, the one of the task
\* whose check it is, and leaves the other four as they were; the timers of
\* the network report, the telemetry publish and the alert publish move on by
\* their period at every firing, whether or not Wi-Fi is connected and
\* whether or not anything was sent.
C31_TimersIndependent ==
    [][/\ \A t \in Tasks :
             timer'[t] # timer[t] =>
                /\ pc = (IF t = "sensor" THEN "sensor" ELSE IF t = "display" THEN "display"
                         ELSE IF t = "wifi" THEN "wifi" ELSE IF t = "mqtt" THEN "mqtt"
                         ELSE "alert")
                /\ runs'[t] = runs[t] + 1
                /\ \A u \in Tasks \ {t} : timer'[u] = timer[u] /\ runs'[u] = runs[u]
       /\ (pc = "wifi" /\ timer["wifi"] <= now) => timer'["wifi"] = timer["wifi"] + 5000
       /\ (pc = "mqtt" /\ timer["mqtt"] <= now) => timer'["mqtt"] = timer["mqtt"] + 10000
       /\ (pc = "alert" /\ timer["alert"] <= now) => timer'["alert"] = timer["alert"] + 30000
      ]_vars

\* The telemetry publish fired for the second time with Wi-Fi never
\* connected: nothing was ever sent, its timer has moved on twice and the
\* alert timer has not moved.
C31_Witness ==
    /\ pc = "alert" /\ last.task = "mqtt"
    /\ ~app_state.wifi.connected /\ published = << >> /\ sent.data = 0
    /\ runs["mqtt"] = 2 /\ timer["mqtt"] = t0 + 30000
    /\ timer["alert"] = t0 + 30000 /\ runs["alert"] = 0


\* ============================================================== consistency
\* C32: in every state of the loop, before the first sensor read included,
\* the stored alert flags are the evaluation of the stored readings and
\* validity flags: temperature alert iff valid and outside 15..35, humidity
\* alert iff valid and above 80, lux alert iff valid and under 50, and
\* any_critical their disjunction.
C32_AlertsMatchReadings ==
    LET s == app_state.sensors
        a == app_state.alerts
    IN  /\ a.temp_critical
              = (s.aht_ok /\ (s.temperature < 15 * FloatOne \/ s.temperature > 35 * FloatOne))
        /\ a.humidity_critical = (s.aht_ok /\ s.humidity > 80 * FloatOne)
        /\ a.lux_critical = (s.lux_ok /\ s.lux < 50 * FloatOne)
        /\ a.any_critical = (a.temp_critical \/ a.humidity_critical \/ a.lux_critical)

\* The display is refreshed after a second sensor read in which both sensors
\* failed, the first having raised alerts: the out-of-range temperature is
\* still stored and no alert flag is set.
C32_Witness ==
    /\ last.task = "display" /\ runs["sensor"] = 2
    /\ alerts_before.any_critical
    /\ ~app_state.sensors.aht_ok /\ ~app_state.sensors.lux_ok
    /\ app_state.sensors.temperature > 35 * FloatOne
    /\ ~app_state.alerts.any_critical


C34_PressIsFallingEdge ==
    [][IF pc = "buttons"
       THEN LET a == btn.a /\ ~btn'.a
                b == btn.b /\ ~btn'.b
                c == btn.c /\ ~btn'.c
                m == app_state.current_menu
            IN  (/\ ((~btn.a \/ btn'.a) /\ (~btn.b \/ btn'.b)) =>
                       app_state'.current_menu = m
                 /\ (a /\ ~b) => app_state'.current_menu = (m + 3) % 4
                 /\ (b /\ ~a) => app_state'.current_menu = (m + 1) % 4
                 /\ (reconnects' = reconnects + 1) = c
                 /\ ~c => (reconnects' = reconnects /\ now' = now
                           /\ app_state'.wifi = app_state.wifi))
       ELSE (btn' = btn /\ reconnects' = reconnects)]_vars

\* Buttons A and C were low when the buttons were set up and are low at the
\* first poll, button B is high: no event, the menu has not moved and no
\* reconnection was started.
C34_Witness ==
    /\ pc = "sensor" /\ now = t0
    /\ ~btn.a /\ btn.b /\ ~btn.c
    /\ app_state.current_menu = MENU_MEASUREMENTS
    /\ reconnects = 0


\* ============================================================= stale values
\* C35: a sensor-read firing whose temperature/humidity read fails leaves
\* the stored temperature and humidity as they were and clears the validity
\* flag only; no other step writes them, so the numbers of the last
\* successful read stay in the state, unused by the alert evaluation, until
\* the next successful read.
C35_FailedReadKeepsNumbers ==
    [][/\ (pc = "sensor" /\ runs'["sensor"] = runs["sensor"] + 1
              /\ ~app_state'.sensors.aht_ok) =>
             /\ i2c'.aht.n # 6 \/ i2c'.aht.data[1] >= 128
             /\ app_state'.sensors.temperature = app_state.sensors.temperature
             /\ app_state'.sensors.humidity = app_state.sensors.humidity
             /\ ~app_state'.alerts.temp_critical
             /\ ~app_state'.alerts.humidity_critical
       /\ (pc # "sensor" \/ runs'["sensor"] = runs["sensor"]) =>
             /\ app_state'.sensors.temperature = app_state.sensors.temperature
             /\ app_state'.sensors.humidity = app_state.sensors.humidity
      ]_vars

\* The second read failed after the first had stored an out-of-range
\* temperature and humidity: both numbers are still stored, the flag is
\* cleared and the alerts they had raised are gone.
C35_Witness ==
    /\ runs["sensor"] = 2 /\ i2c.was.aht_ok
    /\ alerts_before.temp_critical
    /\ ~app_state.sensors.aht_ok
    /\ app_state.sensors.temperature = TempOf(RawTemp(FrameHot))
    /\ app_state.sensors.humidity = HumidityOf(RawHumidity(FrameHot))
    /\ ~app_state.alerts.temp_critical

====
